---- MODULE Spec2Model ----
(***************************************************************************)
(* Model of the Fansnap prototype: the Express handlers of src/server.js   *)
(* over the in-memory collections of models.js (the JavaScript module      *)
(* that follows the README text in src/README.md, lines 56-277).           *)
(*                                                                         *)
(* One action per HTTP handler.  Node runs each handler to completion on   *)
(* one thread, so a handler is one atomic step unless it awaits: register  *)
(* awaits bcrypt.hash inside createUser and is split at that await.        *)
(***************************************************************************)
EXTENDS Integers, Sequences, FiniteSets, TLC

(***************************************************************************)
(* JavaScript numbers.                                                     *)
(*                                                                         *)
(* A JS number is an IEEE-754 binary64 value.  A finite value is modelled  *)
(* exactly as a sign and the set of the positions of the 1 bits of its     *)
(* magnitude: position i stands for 2^i, i may be negative.  A value is a  *)
(* binary64 value iff its bits span at most 53 positions (the model's      *)
(* inputs stay far from the subnormal and overflow ranges, and -0 is       *)
(* identified with 0: no handler distinguishes them).  Arithmetic is the   *)
(* exact result rounded to nearest, ties to even, as `+` and `*` are.      *)
(***************************************************************************)
Max(S) == CHOOSE x \in S : \A y \in S : y <= x

Min(S) == CHOOSE x \in S : \A y \in S : x <= y

RECURSIVE Pow2(_)
Pow2(n) == IF n = 0 THEN 1 ELSE 2 * Pow2(n - 1)

BitsOfNat(n) == { i \in 0..30 : (n \div Pow2(i)) % 2 = 1 }

Zero == [neg |-> FALSE, bits |-> {}]

\* the number with magnitude bits m and sign neg (0 carries no sign)
MkNum(neg, m) == [neg |-> (neg /\ m # {}), bits |-> m]

\* an integer literal
Num(k) == MkNum(k < 0, BitsOfNat(IF k < 0 THEN -k ELSE k))

\* k * 2^e
Scaled(k, e) == LET n == Num(k) IN MkNum(n.neg, { i + e : i \in n.bits })

MagLess(a, b) == a # b /\ Max((a \ b) \cup (b \ a)) \in b

\* carry into position i when adding magnitudes a and b
Carry(a, b, i) ==
    \E j \in a \cap b : j < i /\ \A k \in (j + 1)..(i - 1) : k \in a \cup b

MagAdd(a, b) ==
    IF a = {} THEN b
    ELSE IF b = {} THEN a
    ELSE { i \in Min(a \cup b)..(Max(a \cup b) + 1) :
             ((i \in a) # (i \in b)) # Carry(a, b, i) }

\* borrow out of the positions below i when subtracting b from a, a >= b
Borrow(a, b, i) ==
    \E j \in b \ a : j < i /\ \A k \in (j + 1)..(i - 1) : ~(k \in a \ b)

MagSub(a, b) ==
    IF b = {} THEN a
    ELSE { i \in Min(a \cup b)..Max(a \cup b) :
             ((i \in a) # (i \in b)) # Borrow(a, b, i) }

RECURSIVE MagMul(_, _)
MagMul(a, b) ==
    IF a = {} \/ b = {} THEN {}
    ELSE LET i == Max(a)
         IN  MagAdd({ j + i : j \in b }, MagMul(a \ {i}, b))

\* round a magnitude to the 53 significant bits of a binary64 significand,
\* to nearest, ties to even
Round53(m) ==
    IF m = {} THEN {}
    ELSE LET p    == Max(m) - 52   \* lowest position kept
             kept == { i \in m : i >= p }
             rest == { i \in m : i < p }
             up   == (p - 1) \in rest /\ (rest # {p - 1} \/ p \in kept)
         IN  IF up THEN MagAdd(kept, {p}) ELSE kept

\* the exact (real-number) sum and product
ExactAdd(x, y) ==
    IF x.neg = y.neg THEN MkNum(x.neg, MagAdd(x.bits, y.bits))
    ELSE IF MagLess(x.bits, y.bits) THEN MkNum(y.neg, MagSub(y.bits, x.bits))
    ELSE MkNum(x.neg, MagSub(x.bits, y.bits))

ExactMul(x, y) == MkNum(x.neg # y.neg, MagMul(x.bits, y.bits))

RoundNum(x) == MkNum(x.neg, Round53(x.bits))

\* JavaScript x + y and x * y on numbers
JsAdd(x, y) == RoundNum(ExactAdd(x, y))

JsMul(x, y) == RoundNum(ExactMul(x, y))

\* JavaScript x < y and x <= y on numbers
NumLess(x, y) ==
    IF x.neg # y.neg THEN x.neg
    ELSE IF x.neg THEN MagLess(y.bits, x.bits)
    ELSE MagLess(x.bits, y.bits)

NumLeq(x, y) == x = y \/ NumLess(x, y)


(***************************************************************************)
(* JSON values of a request body.  Only the type and, for a number, its    *)
(* value matter to the handlers; num is Zero for the other types.          *)
(***************************************************************************)
JNum(x) == [type |-> "number", num |-> x]

JUndefined == [type |-> "undefined", num |-> Zero]

JString == [type |-> "string", num |-> Zero]

\* typeof v === 'number'
IsNumber(v) == v.type = "number"

\* JavaScript truthiness of a body value (a non-empty string is truthy)
Truthy(v) == v.type = "string" \/ (v.type = "number" /\ v.num # Zero)

\* a body value of a type with the content that tells it from the other
\* values of the type
JValue(type, content) == [type |-> type, content |-> content]

\* typeof v === 'string'
IsString(v) == v.type = "string"

\* typeof v === 'object': true of a plain object, of an array and of null
TypeofObject(v) == v.type \in {"object", "array", "null"}

\* Array.isArray(v)
IsArray(v) == v.type = "array"

(***************************************************************************)
(* Text that is searched: a JS string as the sequence of its characters.   *)
(***************************************************************************)
\* the lower-case form of one character
LowerChar(ch) ==
    CASE ch = "A" -> "a" [] ch = "B" -> "b" [] ch = "H" -> "h"
      [] ch = "I" -> "i" [] ch = "O" -> "o" [] ch = "Y" -> "y"
      [] OTHER -> ch

\* String.prototype.toLowerCase
toLowerCase(t) == [ i \in 1..Len(t) |-> LowerChar(t[i]) ]

\* String.prototype.includes
includes(t, q) ==
    \E i \in 0..(Len(t) - Len(q)) : SubSeq(t, i + 1, i + Len(q)) = q

(***************************************************************************)
(* Bounds of the model.                                                    *)
(***************************************************************************)
\* users registered or being registered
MaxUsers == 2

\* ids drawn from uuidv4(): records ever created, over all collections
MaxIds == 5

\* referral records
MaxReferrals == 2

\* referral signup/earn calls that return a record
MaxCalls == 4

\* ids drawn in the specification of all ledgers
MaxLedgerIds == 4

\* referral signup/earn calls that return a record in the specification of
\* all ledgers
MaxLedgerCalls == 1

\* req.user of an anonymous request, and a null subscriberId
NoUser == 0

\* HTTP statuses the handlers send
Ok == 200

InvalidInput == 400

Unauthenticated == 401

Forbidden == 403

NotFound == 404

Conflict == 409

VARIABLES
    users,          \* models.js: const users = []
    posts,          \* const posts = []
    subscriptions,  \* const subscriptions = []
    storeItems,     \* const storeItems = []
    orders,         \* const orders = []
    referrals,      \* const referrals = []
    messages,       \* const messages = []
    tips,           \* const tips = []
    hashing,        \* createUser calls suspended at `await bcrypt.hash`
    sessions,       \* ids of the users some live session is logged in as
    nextId,         \* the uuidv4() stream: the next fresh id
    calls,          \* history: the referral signup/earn calls that returned a record
    subscribed      \* history: <<subscriber, creator>> of the subscribe requests answered Ok

ledgers == <<users, posts, subscriptions, storeItems, orders, referrals,
             messages, tips>>

vars == <<users, posts, subscriptions, storeItems, orders, referrals,
          messages, tips, hashing, sessions, nextId, calls, subscribed>>

Range(s) == { s[i] : i \in 1..Len(s) }

\* what Array.prototype.find gives when no element passes: null / undefined
NoRecord == [id |-> 0]

\* Array.prototype.findIndex, 1-based: 0 when no element passes
FindIndex(s, Test(_)) ==
    IF \E i \in 1..Len(s) : Test(s[i])
    THEN Min({ i \in 1..Len(s) : Test(s[i]) })
    ELSE 0

\* Array.prototype.find
Find(s, Test(_)) ==
    LET i == FindIndex(s, Test) IN IF i = 0 THEN NoRecord ELSE s[i]

Init ==
    /\ users = <<>>
    /\ posts = <<>>
    /\ subscriptions = <<>>
    /\ storeItems = <<>>
    /\ orders = <<>>
    /\ referrals = <<>>
    /\ messages = <<>>
    /\ tips = <<>>
    /\ hashing = {}
    /\ sessions = {}
    /\ nextId = 1
    /\ calls = <<>>
    /\ subscribed = {}

(***************************************************************************)
(* A handler is modelled by two definitions: XStatus, the status it        *)
(* responds with (its chain of early returns, a function of the request    *)
(* and of the collections when the request arrives), and the action X,     *)
(* which changes the collections when the status is Ok and nothing         *)
(* otherwise.                                                              *)
(*                                                                         *)
(* Identity: the user functions of models.js, the session middleware and   *)
(* the register, login and logout handlers.  A user record keeps the       *)
(* fields the handlers read (email and createdAt are written once and not  *)
(* read by any handler modelled here).                                     *)
(***************************************************************************)
getUserById(id) == LET Test(u) == u.id = id IN Find(users, Test)

getUserByUsername(username) ==
    LET Test(u) == u.username = username IN Find(users, Test)

\* bcrypt.hash / bcrypt.compare: the hash is opaque, compare succeeds on the
\* password that was hashed
Hash(password) == <<"bcrypt", password>>

Compare(password, hash) == hash = Hash(password)

\* req.user of a request: the session middleware resolves the session's userId
\* with getUserById; a request without a session is anonymous (NoUser).  The
\* session store is kept as the set of user ids some session holds.
Requesters ==
    { NoUser } \cup { u.id : u \in { v \in Range(users) : v.id \in sessions } }

\* POST /api/register: the checks before createUser is called.  Ok is sent
\* once createUser has returned.
RegisterStatus(username, email, password) ==
    IF username = "" \/ email = "" \/ password = "" THEN InvalidInput
    ELSE IF getUserByUsername(username) # NoRecord THEN Conflict
    ELSE Ok

\* POST /api/register up to the await: after the checks createUser draws its
\* id and suspends on bcrypt.hash
RegisterStart(username, email, password, role) ==
    /\ UNCHANGED <<ledgers, sessions, calls, subscribed>>
    /\ IF RegisterStatus(username, email, password) # Ok
       THEN UNCHANGED <<hashing, nextId>>
       ELSE /\ Len(users) + Cardinality(hashing) < MaxUsers
            /\ nextId <= MaxIds
            /\ hashing' = hashing \cup
                 { [id |-> nextId, username |-> username,
                    password |-> password, role |-> role] }
            /\ nextId' = nextId + 1

\* createUser after bcrypt.hash resolves
\* the profile createUser gives a new user
EmptyProfile ==
    [bio |-> JValue("string", ""), profilePicture |-> JValue("string", ""),
     banner |-> JValue("string", ""), socialLinks |-> JValue("object", "{}"),
     subscriptionPlans |-> JValue("array", "[]")]

createUser(h) ==
    Append(users, [id |-> h.id, username |-> h.username,
                   passwordHash |-> Hash(h.password), role |-> h.role,
                   profile |-> EmptyProfile])

\* the rest of the register handler: the user is pushed, the session is
\* logged in as the new user, Ok is sent
RegisterFinish(h) ==
    /\ h \in hashing
    /\ hashing' = hashing \ {h}
    /\ users' = createUser(h)
    /\ sessions' = sessions \cup {h.id}
    /\ UNCHANGED <<posts, subscriptions, storeItems, orders, referrals,
                   messages, tips, nextId, calls, subscribed>>

\* models.js authenticate
authenticate(username, password) ==
    LET user == getUserByUsername(username)
    IN  IF user = NoRecord THEN NoRecord
        ELSE IF ~Compare(password, user.passwordHash) THEN NoRecord
        ELSE user

\* POST /api/login
LoginStatus(username, password) ==
    IF username = "" \/ password = "" THEN InvalidInput
    ELSE IF authenticate(username, password) = NoRecord THEN Unauthenticated
    ELSE Ok

Login(username, password) ==
    /\ UNCHANGED <<ledgers, hashing, nextId, calls, subscribed>>
    /\ IF LoginStatus(username, password) # Ok
       THEN UNCHANGED sessions
       ELSE sessions' = sessions \cup { authenticate(username, password).id }

\* POST /api/logout: destroys the request's session; other sessions of the
\* same user may remain
Logout(uid) ==
    /\ uid \in Requesters
    /\ sessions' \in { sessions, sessions \ {uid} }
    /\ UNCHANGED <<ledgers, hashing, nextId, calls, subscribed>>

\* PUT /api/profile: body is the request body, a field left out being
\* undefined; the profile is that of the stored user req.user refers to
UpdateProfileStatus(uid) == IF uid = NoUser THEN Unauthenticated ELSE Ok

MergeProfile(profile, body) ==
    [bio               |-> IF IsString(body.bio) THEN body.bio ELSE profile.bio,
     profilePicture    |-> IF IsString(body.profilePicture)
                           THEN body.profilePicture ELSE profile.profilePicture,
     banner            |-> IF IsString(body.banner) THEN body.banner
                           ELSE profile.banner,
     socialLinks       |-> IF TypeofObject(body.socialLinks)
                           THEN body.socialLinks ELSE profile.socialLinks,
     subscriptionPlans |-> IF IsArray(body.subscriptionPlans)
                           THEN body.subscriptionPlans
                           ELSE profile.subscriptionPlans]

UpdateProfile(uid, body) ==
    /\ uid \in Requesters
    /\ UNCHANGED <<posts, subscriptions, storeItems, orders, referrals, messages,
                   tips, hashing, sessions, nextId, calls, subscribed>>
    /\ IF UpdateProfileStatus(uid) # Ok
       THEN UNCHANGED users
       ELSE LET Test(u) == u.id = uid
                i       == FindIndex(users, Test)
            IN  users' = [users EXCEPT
                            ![i].profile = MergeProfile(users[i].profile, body)]

(***************************************************************************)
(* Content and subscriptions.  A post keeps id, creatorId, content,        *)
(* subscriberOnly and tags (type, price, likes, views and createdAt are    *)
(* stored and read by no handler modelled here).  content is a text and    *)
(* tags an array of texts.                                                 *)
(***************************************************************************)
createPost(id, creatorId, content, subscriberOnly, tags) ==
    Append(posts, [id |-> id, creatorId |-> creatorId, content |-> content,
                   subscriberOnly |-> subscriberOnly, tags |-> tags])

\* the test of subscriptions.some(...) in listPosts
\* ActiveMatch without the comparison of the subscriber
ActiveMatchAnySubscriber(s, creatorId, subscriberId) ==
    s.creatorId = creatorId /\ s.status = "active"

ActiveMatch(s, creatorId, subscriberId) ==
    s.creatorId = creatorId /\ s.subscriberId = subscriberId /\ s.status = "active"

\* the filter callback of listPosts
Visible(p, creatorId, subscriberId) ==
    IF p.creatorId # creatorId THEN FALSE
    ELSE IF ~p.subscriberOnly THEN TRUE
    ELSE IF subscriberId = NoUser THEN FALSE
    ELSE \E i \in 1..Len(subscriptions) :
             ActiveMatch(subscriptions[i], creatorId, subscriberId)

listPosts(creatorId, subscriberId) ==
    LET Test(p) == Visible(p, creatorId, subscriberId) IN SelectSeq(posts, Test)

\* subscribe creating the record with a status that is not "active"
subscribePending(id, subscriberId, creatorId, plan) ==
    Append(subscriptions, [id |-> id, subscriberId |-> subscriberId,
                           creatorId |-> creatorId, plan |-> plan,
                           status |-> "pending"])

\* subscribe cancelling the active records of the pair when there are some
subscribeToggle(id, subscriberId, creatorId, plan) ==
    IF \E i \in 1..Len(subscriptions) :
           /\ subscriptions[i].subscriberId = subscriberId
           /\ subscriptions[i].creatorId = creatorId
           /\ subscriptions[i].status = "active"
    THEN [ i \in 1..Len(subscriptions) |->
             IF /\ subscriptions[i].subscriberId = subscriberId
                /\ subscriptions[i].creatorId = creatorId
             THEN [subscriptions[i] EXCEPT !.status = "cancelled"]
             ELSE subscriptions[i] ]
    ELSE Append(subscriptions, [id |-> id, subscriberId |-> subscriberId,
                                creatorId |-> creatorId, plan |-> plan,
                                status |-> "active"])

\* subscribe adding nothing when the pair has an active record
subscribeOnce(id, subscriberId, creatorId, plan) ==
    IF \E i \in 1..Len(subscriptions) :
           /\ subscriptions[i].subscriberId = subscriberId
           /\ subscriptions[i].creatorId = creatorId
           /\ subscriptions[i].status = "active"
    THEN subscriptions
    ELSE Append(subscriptions, [id |-> id, subscriberId |-> subscriberId,
                                creatorId |-> creatorId, plan |-> plan,
                                status |-> "active"])

subscribe(id, subscriberId, creatorId, plan) ==
    Append(subscriptions, [id |-> id, subscriberId |-> subscriberId,
                           creatorId |-> creatorId, plan |-> plan,
                           status |-> "active"])

listSubscriptions(subscriberId) ==
    LET Test(s) == s.subscriberId = subscriberId IN SelectSeq(subscriptions, Test)

\* POST /api/posts
CreatePostStatus(uid, content) ==
    IF uid = NoUser THEN Unauthenticated
    ELSE IF getUserById(uid).role # "creator" THEN Forbidden
    ELSE IF content = <<>> THEN InvalidInput
    ELSE Ok

CreatePost(uid, content, subscriberOnly, tags) ==
    /\ uid \in Requesters
    /\ UNCHANGED <<users, subscriptions, storeItems, orders, referrals,
                   messages, tips, hashing, sessions, calls, subscribed>>
    /\ IF CreatePostStatus(uid, content) # Ok
       THEN UNCHANGED <<posts, nextId>>
       ELSE /\ nextId <= MaxIds
            /\ posts' = createPost(nextId, uid, content, subscriberOnly, tags)
            /\ nextId' = nextId + 1

\* GET /api/posts/:creatorUsername
ListPostsStatus(creatorUsername) ==
    LET creator == getUserByUsername(creatorUsername)
    IN  IF creator = NoRecord \/ creator.role # "creator" THEN NotFound ELSE Ok

\* the posts of the response, when the status is Ok: subscriberId is
\* req.user's id, or null for an anonymous request
ListPostsBody(uid, creatorUsername) ==
    listPosts(getUserByUsername(creatorUsername).id, uid)

\* POST /api/subscribe/:creatorUsername
\* SubscribeStatus without the test of the role of the user named
SubscribeStatusAnyUser(uid, creatorUsername) ==
    LET creator == getUserByUsername(creatorUsername)
    IN  IF uid = NoUser THEN Unauthenticated
        ELSE IF creator = NoRecord THEN NotFound
        ELSE IF creator.id = uid THEN InvalidInput
        ELSE Ok

\* SubscribeStatus without the comparison of the creator with the requester
SubscribeStatusNoSelfCheck(uid, creatorUsername) ==
    LET creator == getUserByUsername(creatorUsername)
    IN  IF uid = NoUser THEN Unauthenticated
        ELSE IF creator = NoRecord \/ creator.role # "creator" THEN NotFound
        ELSE Ok

SubscribeStatus(uid, creatorUsername) ==
    LET creator == getUserByUsername(creatorUsername)
    IN  IF uid = NoUser THEN Unauthenticated
        ELSE IF creator = NoRecord \/ creator.role # "creator" THEN NotFound
        ELSE IF creator.id = uid THEN InvalidInput
        ELSE Ok

\* Subscribe also leaving a message for the creator
SubscribeNotifies(uid, creatorUsername) ==
    /\ uid \in Requesters
    /\ UNCHANGED <<users, posts, storeItems, orders, referrals, tips,
                   hashing, sessions, calls>>
    /\ IF SubscribeStatus(uid, creatorUsername) # Ok
       THEN UNCHANGED <<subscriptions, messages, nextId, subscribed>>
       ELSE /\ nextId <= MaxIds
            /\ subscribed' = subscribed \cup
                 { <<uid, getUserByUsername(creatorUsername).id>> }
            /\ subscriptions' = subscribe(nextId, uid,
                                          getUserByUsername(creatorUsername).id,
                                          "monthly")
            /\ messages' = Append(messages,
                                  [id |-> nextId, senderId |-> uid,
                                   recipientId |-> getUserByUsername(creatorUsername).id,
                                   content |-> "subscribed"])
            /\ nextId' = nextId + 1

Subscribe(uid, creatorUsername) ==
    /\ uid \in Requesters
    /\ UNCHANGED <<users, posts, storeItems, orders, referrals, messages, tips,
                   hashing, sessions, calls>>
    /\ IF SubscribeStatus(uid, creatorUsername) # Ok
       THEN UNCHANGED <<subscriptions, nextId, subscribed>>
       ELSE /\ nextId <= MaxIds
            /\ subscribed' = subscribed \cup
                 { <<uid, getUserByUsername(creatorUsername).id>> }
            /\ subscriptions' = subscribe(nextId, uid,
                                          getUserByUsername(creatorUsername).id,
                                          "monthly")
            /\ nextId' = nextId + 1

\* deletePostById with splice(index): the post and all after it are removed
deletePostByIdToEnd(postId) ==
    LET Test(p) == p.id = postId
        index   == FindIndex(posts, Test)
    IN  IF index # 0 THEN SubSeq(posts, 1, index - 1) ELSE posts

\* models.js deletePostById: the posts left
deletePostById(postId) ==
    LET Test(p) == p.id = postId
        index   == FindIndex(posts, Test)
    IN  IF index # 0
        THEN [ i \in 1..(Len(posts) - 1) |->
                 IF i < index THEN posts[i] ELSE posts[i + 1] ]
        ELSE posts

\* DELETE /api/admin/posts/:postId behind requireAdmin
DeletePostStatus(uid, postId) ==
    IF uid = NoUser \/ getUserById(uid).role # "admin" THEN Forbidden
    ELSE IF \A p \in Range(posts) : p.id # postId THEN NotFound
    ELSE Ok

DeletePost(uid, postId) ==
    /\ uid \in Requesters
    /\ UNCHANGED <<users, subscriptions, storeItems, orders, referrals, messages,
                   tips, hashing, sessions, nextId, calls, subscribed>>
    /\ IF DeletePostStatus(uid, postId) = Forbidden
       THEN UNCHANGED posts
       ELSE posts' = deletePostById(postId)

\* models.js searchPosts
searchPosts(query) ==
    LET q == toLowerCase(query)
        Test(p) == \/ includes(toLowerCase(p.content), q)
                   \/ \E i \in 1..Len(p.tags) : includes(toLowerCase(p.tags[i]), q)
    IN  SelectSeq(posts, Test)

\* GET /api/search/posts
SearchPostsStatus(q) == IF q = <<>> THEN InvalidInput ELSE Ok

SearchPostsBody(q) == searchPosts(q)

(***************************************************************************)
(* Store and orders.                                                       *)
(***************************************************************************)
createStoreItem(id, creatorId, name, price) ==
    Append(storeItems, [id |-> id, creatorId |-> creatorId, name |-> name,
                        price |-> price])

listStoreItems(creatorId) ==
    LET Test(item) == item.creatorId = creatorId IN SelectSeq(storeItems, Test)

findStoreItemById(id) == LET Test(item) == item.id = id IN Find(storeItems, Test)

\* createOrder creating the record as already paid
createOrderPaid(id, itemId, buyerId) ==
    Append(orders, [id |-> id, itemId |-> itemId, buyerId |-> buyerId,
                    status |-> "paid"])

createOrder(id, itemId, buyerId) ==
    Append(orders, [id |-> id, itemId |-> itemId, buyerId |-> buyerId,
                    status |-> "pending"])

listOrdersByBuyer(buyerId) ==
    LET Test(o) == o.buyerId = buyerId IN SelectSeq(orders, Test)

\* POST /api/store/:creatorUsername; price is the body's price
CreateStoreItemStatus(uid, creatorUsername, name, price) ==
    LET creator == getUserByUsername(creatorUsername)
    IN  IF uid = NoUser THEN Unauthenticated
        ELSE IF creator = NoRecord \/ creator.id # uid THEN Forbidden
        ELSE IF name = "" \/ ~IsNumber(price) THEN InvalidInput
        ELSE Ok

CreateStoreItem(uid, creatorUsername, name, price) ==
    /\ uid \in Requesters
    /\ UNCHANGED <<users, posts, subscriptions, orders, referrals, messages, tips,
                   hashing, sessions, calls, subscribed>>
    /\ IF CreateStoreItemStatus(uid, creatorUsername, name, price) # Ok
       THEN UNCHANGED <<storeItems, nextId>>
       ELSE /\ nextId <= MaxIds
            /\ storeItems' = createStoreItem(nextId, uid, name, price.num)
            /\ nextId' = nextId + 1

\* POST /api/order/:itemId
\* CreateOrderStatus without the comparison of the item's creator with the buyer
CreateOrderStatusNoSelfCheck(uid, itemId) ==
    LET item == findStoreItemById(itemId)
    IN  IF uid = NoUser THEN Unauthenticated
        ELSE IF item = NoRecord THEN NotFound
        ELSE Ok

CreateOrderStatus(uid, itemId) ==
    LET item == findStoreItemById(itemId)
    IN  IF uid = NoUser THEN Unauthenticated
        ELSE IF item = NoRecord THEN NotFound
        ELSE IF item.creatorId = uid THEN InvalidInput
        ELSE Ok

\* CreateOrder taking the item ordered out of the store
CreateOrderTakesItem(uid, itemId) ==
    /\ uid \in Requesters
    /\ UNCHANGED <<users, posts, subscriptions, referrals, messages,
                   tips, hashing, sessions, calls, subscribed>>
    /\ IF CreateOrderStatus(uid, itemId) # Ok
       THEN UNCHANGED <<orders, storeItems, nextId>>
       ELSE /\ nextId <= MaxIds
            /\ orders' = createOrder(nextId, findStoreItemById(itemId).id, uid)
            /\ storeItems' = LET Test(item) == item.id # itemId
                             IN  SelectSeq(storeItems, Test)
            /\ nextId' = nextId + 1

CreateOrder(uid, itemId) ==
    /\ uid \in Requesters
    /\ UNCHANGED <<users, posts, subscriptions, storeItems, referrals, messages,
                   tips, hashing, sessions, calls, subscribed>>
    /\ IF CreateOrderStatus(uid, itemId) # Ok
       THEN UNCHANGED <<orders, nextId>>
       ELSE /\ nextId <= MaxIds
            /\ orders' = createOrder(nextId, findStoreItemById(itemId).id, uid)
            /\ nextId' = nextId + 1

(***************************************************************************)
(* Referrals.  commission and earnings are JS numbers; signups counts in   *)
(* small integers, which JS numbers hold exactly.                          *)
(***************************************************************************)
\* the literal 0.2 as the binary64 value it denotes, 0x1.999999999999Ap-3
PointTwo ==
    MkNum(FALSE, { -(4 * k + 3) : k \in 0..12 } \cup { -(4 * k + 4) : k \in 0..12 }
                 \cup { -54 })

\* `commission || 0.2` in the handler, then the default parameter
\* `commission = 0.2` of createReferral, which applies to undefined only
CommissionArg(commission) ==
    LET passed == IF Truthy(commission) THEN commission ELSE JNum(PointTwo)
    IN  IF passed.type = "undefined" THEN PointTwo ELSE passed.num

createReferral(id, creatorId, affiliateId, code, commission) ==
    Append(referrals, [id |-> id, creatorId |-> creatorId,
                       affiliateId |-> affiliateId, code |-> code,
                       commission |-> commission, signups |-> 0,
                       earnings |-> Zero])

\* referrals.find(r => r.code === code) as an index, 0 when there is none
ReferralIndex(code) == LET Test(r) == r.code = code IN FindIndex(referrals, Test)

getReferralByCode(code) == LET Test(r) == r.code = code IN Find(referrals, Test)

\* recordReferralSignup counting on every Referral that has the code
recordReferralSignupAll(code) ==
    [ i \in 1..Len(referrals) |->
        IF referrals[i].code = code
        THEN [referrals[i] EXCEPT !.signups = @ + 1]
        ELSE referrals[i] ]

\* recordReferralSignup counting a code at most once
recordReferralSignupOnce(code) ==
    LET i == ReferralIndex(code)
    IN  IF i # 0 THEN [referrals EXCEPT ![i].signups = 1] ELSE referrals

\* ref.signups += 1
recordReferralSignup(code) ==
    LET i == ReferralIndex(code)
    IN  IF i # 0 THEN [referrals EXCEPT ![i].signups = @ + 1] ELSE referrals

\* ref.earnings += amount * ref.commission
\* addReferralEarning storing the call's share instead of adding it
addReferralEarningOverwrite(code, amount) ==
    LET i == ReferralIndex(code)
    IN  IF i # 0
        THEN [referrals EXCEPT
                ![i].earnings = JsMul(amount, referrals[i].commission)]
        ELSE referrals

addReferralEarning(code, amount) ==
    LET i == ReferralIndex(code)
    IN  IF i # 0
        THEN [referrals EXCEPT
                ![i].earnings = JsAdd(@, JsMul(amount, referrals[i].commission))]
        ELSE referrals

\* POST /api/referral; creatorId is the body's creatorId (NoUser: left out),
\* commission the body's commission
CreateReferralStatus(uid, code) ==
    IF uid = NoUser THEN Unauthenticated
    ELSE IF code = "" THEN InvalidInput
    ELSE Ok

CreateReferral(uid, creatorId, code, commission) ==
    /\ uid \in Requesters
    /\ UNCHANGED <<users, posts, subscriptions, storeItems, orders, messages, tips,
                   hashing, sessions, calls, subscribed>>
    /\ IF CreateReferralStatus(uid, code) # Ok
       THEN UNCHANGED <<referrals, nextId>>
       ELSE /\ nextId <= MaxIds
            /\ Len(referrals) < MaxReferrals
            /\ referrals' = createReferral(nextId,
                                IF creatorId = NoUser THEN uid ELSE creatorId,
                                uid, code, CommissionArg(commission))
            /\ nextId' = nextId + 1

\* POST /api/referral/:code/signup
ReferralSignupStatus(code) == IF ReferralIndex(code) = 0 THEN NotFound ELSE Ok

ReferralSignup(code) ==
    /\ UNCHANGED <<users, posts, subscriptions, storeItems, orders, messages, tips,
                   hashing, sessions, nextId, subscribed>>
    /\ IF ReferralSignupStatus(code) # Ok
       THEN UNCHANGED <<referrals, calls>>
       ELSE /\ Len(calls) < MaxCalls
            /\ referrals' = recordReferralSignup(code)
            /\ calls' = Append(calls, [op |-> "signup", code |-> code, amount |-> Zero])

\* POST /api/referral/:code/earn; amount is the body's amount
ReferralEarnStatus(code, amount) ==
    IF ~IsNumber(amount) THEN InvalidInput
    ELSE IF ReferralIndex(code) = 0 THEN NotFound
    ELSE Ok

ReferralEarn(code, amount) ==
    /\ UNCHANGED <<users, posts, subscriptions, storeItems, orders, messages, tips,
                   hashing, sessions, nextId, subscribed>>
    /\ IF ReferralEarnStatus(code, amount) # Ok
       THEN UNCHANGED <<referrals, calls>>
       ELSE /\ Len(calls) < MaxCalls
            /\ referrals' = addReferralEarning(code, amount.num)
            /\ calls' = Append(calls, [op |-> "earn", code |-> code,
                                       amount |-> amount.num])

(***************************************************************************)
(* Messages and tips.                                                      *)
(***************************************************************************)
sendMessage(id, senderId, recipientId, content) ==
    Append(messages, [id |-> id, senderId |-> senderId,
                      recipientId |-> recipientId, content |-> content])

sendTip(id, senderId, recipientId, amount) ==
    Append(tips, [id |-> id, senderId |-> senderId, recipientId |-> recipientId,
                  amount |-> amount])

listTipsReceived(creatorId) ==
    LET Test(t) == t.recipientId = creatorId IN SelectSeq(tips, Test)

\* POST /api/message/send
SendMessageStatus(uid, recipientUsername, content) ==
    IF uid = NoUser THEN Unauthenticated
    ELSE IF recipientUsername = "" \/ content = "" THEN InvalidInput
    ELSE IF getUserByUsername(recipientUsername) = NoRecord THEN NotFound
    ELSE Ok

SendMessage(uid, recipientUsername, content) ==
    /\ uid \in Requesters
    /\ UNCHANGED <<users, posts, subscriptions, storeItems, orders, referrals, tips,
                   hashing, sessions, calls, subscribed>>
    /\ IF SendMessageStatus(uid, recipientUsername, content) # Ok
       THEN UNCHANGED <<messages, nextId>>
       ELSE /\ nextId <= MaxIds
            /\ messages' = sendMessage(nextId, uid,
                                       getUserByUsername(recipientUsername).id,
                                       content)
            /\ nextId' = nextId + 1

\* POST /api/tip/:creatorUsername; amount is the body's amount
\* SendTipStatus without the comparison of the creator with the sender
SendTipStatusNoSelfCheck(uid, creatorUsername, amount) ==
    LET creator == getUserByUsername(creatorUsername)
    IN  IF uid = NoUser THEN Unauthenticated
        ELSE IF ~IsNumber(amount) \/ NumLeq(amount.num, Zero) THEN InvalidInput
        ELSE IF creator = NoRecord \/ creator.role # "creator" THEN NotFound
        ELSE Ok

SendTipStatus(uid, creatorUsername, amount) ==
    LET creator == getUserByUsername(creatorUsername)
    IN  IF uid = NoUser THEN Unauthenticated
        ELSE IF ~IsNumber(amount) \/ NumLeq(amount.num, Zero) THEN InvalidInput
        ELSE IF creator = NoRecord \/ creator.role # "creator" THEN NotFound
        ELSE IF creator.id = uid THEN InvalidInput
        ELSE Ok

\* SendTip pushing the Tip before the comparison of creator and sender
SendTipPushFirst(uid, creatorUsername, amount) ==
    /\ uid \in Requesters
    /\ UNCHANGED <<users, posts, subscriptions, storeItems, orders, referrals,
                   messages, hashing, sessions, calls, subscribed>>
    /\ IF SendTipStatusNoSelfCheck(uid, creatorUsername, amount) # Ok
       THEN UNCHANGED <<tips, nextId>>
       ELSE /\ nextId <= MaxIds
            /\ tips' = sendTip(nextId, uid, getUserByUsername(creatorUsername).id,
                               amount.num)
            /\ nextId' = nextId + 1

SendTip(uid, creatorUsername, amount) ==
    /\ uid \in Requesters
    /\ UNCHANGED <<users, posts, subscriptions, storeItems, orders, referrals,
                   messages, hashing, sessions, calls, subscribed>>
    /\ IF SendTipStatus(uid, creatorUsername, amount) # Ok
       THEN UNCHANGED <<tips, nextId>>
       ELSE /\ nextId <= MaxIds
            /\ tips' = sendTip(nextId, uid, getUserByUsername(creatorUsername).id,
                               amount.num)
            /\ nextId' = nextId + 1

\* GET /api/tips/:creatorUsername
ListTipsStatus(creatorUsername) ==
    LET creator == getUserByUsername(creatorUsername)
    IN  IF creator = NoRecord \/ creator.role # "creator" THEN NotFound ELSE Ok

\* the tips of the response, when the status is Ok
ListTipsBody(creatorUsername) ==
    listTipsReceived(getUserByUsername(creatorUsername).id)

(***************************************************************************)
(* Specifications.  Each takes the handlers of one part of the API, with   *)
(* the registrations that part needs, and draws the request parameters     *)
(* from small sets.                                                        *)
(***************************************************************************)
Usernames == {"ana", "bo"}

Roles == {"creator", "subscriber", "admin"}

\* registration, login and logout
NextIdentity ==
    \/ \E username \in Usernames \cup {""}, email \in {"", "a@b.c"}, role \in Roles :
         RegisterStart(username, email, "pw", role)
    \/ \E h \in hashing : RegisterFinish(h)
    \/ \E username \in Usernames \cup {""}, password \in {"pw", "wrong"} :
         Login(username, password)
    \/ \E uid \in Requesters : Logout(uid)

SpecIdentity == Init /\ [][NextIdentity]_vars

\* posts and subscriptions: two creators and an admin, who is also the
\* subscriber that is no creator
ContentUsers == { <<"ana", "creator">>, <<"bo", "creator">>, <<"root", "admin">> }

ContentNames == { r[1] : r \in ContentUsers }

NextContent ==
    \/ \E r \in ContentUsers : RegisterStart(r[1], "a@b.c", "pw", r[2])
    \/ \E h \in hashing : RegisterFinish(h)
    \/ \E uid \in Requesters, content \in {<<>>, <<"H", "i">>},
          subscriberOnly \in BOOLEAN :
         CreatePost(uid, content, subscriberOnly, <<>>)
    \/ \E uid \in Requesters, creatorUsername \in ContentNames :
         Subscribe(uid, creatorUsername)
    \/ \E uid \in Requesters, postId \in { p.id : p \in Range(posts) } \cup {nextId} :
         DeletePost(uid, postId)

SpecContent == Init /\ [][NextContent]_vars

\* store items and orders; any user may list items under their own name
\* profile: one user updating the profile, one field per request
ProfileFields ==
    {"bio", "profilePicture", "banner", "socialLinks", "subscriptionPlans"}

ProfileValues ==
    { JValue("string", "x"), JValue("number", "7"), JValue("null", "null"),
      JValue("array", "[a]"), JValue("object", "{k:u}") }

NoBody == [ f \in ProfileFields |-> JValue("undefined", "") ]

ProfileBodies ==
    {NoBody} \cup
    { [NoBody EXCEPT ![f] = v] : f \in ProfileFields, v \in ProfileValues }

NextProfile ==
    \/ users = <<>> /\ hashing = {} /\ RegisterStart("ana", "a@b.c", "pw", "creator")
    \/ \E h \in hashing : RegisterFinish(h)
    \/ Login("ana", "pw")
    \/ \E uid \in Requesters : Logout(uid)
    \/ \E uid \in Requesters, body \in ProfileBodies : UpdateProfile(uid, body)

SpecProfile == Init /\ [][NextProfile]_vars

\* moderation: a creator's posts, with and without tags, searched and deleted
\* by the admin
ModerationUsers == { <<"ana", "creator">>, <<"root", "admin">> }

\* request bodies of POST /api/posts: without content, a public post, a
\* gated post with a tag
Drafts ==
    { [content |-> <<>>, subscriberOnly |-> FALSE, tags |-> <<>>],
      [content |-> <<"H", "i">>, subscriberOnly |-> FALSE, tags |-> <<>>],
      [content |-> <<"y", "o">>, subscriberOnly |-> TRUE,
       tags |-> << <<"H", "i">> >>] }

Queries == { <<"h", "i">>, <<"Y">>, <<"x">> }

NextModeration ==
    \/ \E r \in ModerationUsers :
         hashing = {} /\ RegisterStart(r[1], "a@b.c", "pw", r[2])
    \/ \E h \in hashing : RegisterFinish(h)
    \/ \E uid \in Requesters, d \in Drafts :
         CreatePost(uid, d.content, d.subscriberOnly, d.tags)
    \/ \E uid \in Requesters : Subscribe(uid, "ana")
    \/ \E uid \in Requesters, postId \in { p.id : p \in Range(posts) } \cup {nextId} :
         DeletePost(uid, postId)

SpecModeration == Init /\ [][NextModeration]_vars

CommerceUsers == { <<"ana", "creator">>, <<"bo", "subscriber">> }

CommerceNames == { r[1] : r \in CommerceUsers }

Prices == { JNum(Num(10)), JNum(Num(-10)), JString }

NextCommerce ==
    \/ \E r \in CommerceUsers : RegisterStart(r[1], "a@b.c", "pw", r[2])
    \/ \E h \in hashing : RegisterFinish(h)
    \/ \E uid \in Requesters, creatorUsername \in CommerceNames,
          name \in {"", "pdf"}, price \in Prices :
         CreateStoreItem(uid, creatorUsername, name, price)
    \/ \E uid \in Requesters,
          itemId \in { item.id : item \in Range(storeItems) } \cup {nextId} :
         CreateOrder(uid, itemId)

SpecCommerce == Init /\ [][NextCommerce]_vars

\* referrals of one affiliate under one code: a second record can only
\* repeat the code; UnknownCode is a code no record has
KnownCode == "REF1"

UnknownCode == "NOPE"

Codes == { KnownCode, UnknownCode }

\* body commissions: left out, 0, 1
Commissions == { JUndefined, JNum(Zero), JNum(Num(1)) }

\* body amounts: 1, -1, 2^53, and a value that is no number
Amounts == { JNum(Num(1)), JNum(Num(-1)), JNum(Scaled(1, 53)), JString }

NextReferral ==
    \/ users = <<>> /\ hashing = {} /\ RegisterStart("ana", "a@b.c", "pw", "creator")
    \/ \E h \in hashing : RegisterFinish(h)
    \/ \E uid \in Requesters, code \in { KnownCode, "" }, commission \in Commissions :
         CreateReferral(uid, NoUser, code, commission)
    \/ \E code \in Codes : ReferralSignup(code)
    \/ \E code \in Codes, amount \in Amounts : ReferralEarn(code, amount)

SpecReferral == Init /\ [][NextReferral]_vars

\* tips and messages
SocialUsers == { <<"ana", "creator">>, <<"bo", "subscriber">> }

SocialNames == { r[1] : r \in SocialUsers }

\* body amounts: 5, 0, -5, and a value that is no number
TipAmounts == { JNum(Num(5)), JNum(Zero), JNum(Num(-5)), JString }

NextSocial ==
    \/ \E r \in SocialUsers : RegisterStart(r[1], "a@b.c", "pw", r[2])
    \/ \E h \in hashing : RegisterFinish(h)
    \/ \E uid \in Requesters, recipientUsername \in SocialNames \cup {""},
          content \in {"", "hi"} :
         SendMessage(uid, recipientUsername, content)
    \/ \E uid \in Requesters, creatorUsername \in SocialNames, amount \in TipAmounts :
         SendTip(uid, creatorUsername, amount)

SpecSocial == Init /\ [][NextSocial]_vars

\* all ledgers: every write handler, each with a request that succeeds and
\* requests that fail
LedgerNames == { r[1] : r \in ModerationUsers }

LedgerRoom == nextId <= MaxLedgerIds

RegisterRequest ==
    \E r \in ModerationUsers :
        hashing = {} /\ RegisterStart(r[1], "a@b.c", "pw", r[2])

CreatePostRequest ==
    \E uid \in Requesters, content \in {<<>>, <<"H", "i">>} :
        LedgerRoom /\ CreatePost(uid, content, FALSE, <<>>)

SubscribeRequest ==
    \E uid \in Requesters, creatorUsername \in LedgerNames :
        LedgerRoom /\ Subscribe(uid, creatorUsername)

DeletePostRequest ==
    \E uid \in Requesters, postId \in { p.id : p \in Range(posts) } \cup {nextId} :
        DeletePost(uid, postId)

CreateStoreItemRequest ==
    \E uid \in Requesters, creatorUsername \in LedgerNames,
       price \in {JNum(Num(10)), JString} :
        LedgerRoom /\ CreateStoreItem(uid, creatorUsername, "pdf", price)

CreateOrderRequest ==
    \E uid \in Requesters,
       itemId \in { item.id : item \in Range(storeItems) } \cup {nextId} :
        LedgerRoom /\ CreateOrder(uid, itemId)

CreateReferralRequest ==
    \E uid \in Requesters, code \in { KnownCode, "" } :
        LedgerRoom /\ CreateReferral(uid, NoUser, code, JUndefined)

ReferralSignupRequest ==
    \E code \in Codes : Len(calls) < MaxLedgerCalls /\ ReferralSignup(code)

ReferralEarnRequest ==
    \E code \in Codes, amount \in {JNum(Num(1)), JString} :
        Len(calls) < MaxLedgerCalls /\ ReferralEarn(code, amount)

SendMessageRequest ==
    \E uid \in Requesters, recipientUsername \in {"ana", "nobody"},
       content \in {"", "hi"} :
        LedgerRoom /\ SendMessage(uid, recipientUsername, content)

SendTipRequest ==
    \E uid \in Requesters, creatorUsername \in LedgerNames,
       amount \in {JNum(Num(5)), JNum(Zero)} :
        LedgerRoom /\ SendTip(uid, creatorUsername, amount)

NextLedgers ==
    \/ RegisterRequest
    \/ \E h \in hashing : RegisterFinish(h)
    \/ CreatePostRequest
    \/ SubscribeRequest
    \/ DeletePostRequest
    \/ CreateStoreItemRequest
    \/ CreateOrderRequest
    \/ CreateReferralRequest
    \/ ReferralSignupRequest
    \/ ReferralEarnRequest
    \/ SendMessageRequest
    \/ SendTipRequest

SpecLedgers == Init /\ [][NextLedgers]_vars

(***************************************************************************)
(* Claims.                                                                 *)
(***************************************************************************)
UserIds == { u.id : u \in Range(users) }

\* the posts of the collection authored by creatorId
PostsOf(creatorId) ==
    LET Test(p) == p.creatorId = creatorId IN SelectSeq(posts, Test)

HasActive(subscriberId, creatorId) ==
    \E s \in Range(subscriptions) :
        s.subscriberId = subscriberId /\ s.creatorId = creatorId /\ s.status = "active"

\* C1: no two User records share a username, whatever the interleaving of the
\* register requests (of two requests for one username, one is answered
\* Conflict).  Stated as the claim states it; the code violates it.
C1_UsernameUnique ==
    \A i, j \in 1..Len(users) : users[i].username = users[j].username => i = j

\* C2: for every requester r (a user id or the anonymous requester) and every
\* creator c, when no active Subscription of r to c exists, listPosts(c, r)
\* holds no subscriberOnly post.
C2_GatedNeedsActive ==
    \A c \in UserIds, r \in UserIds \cup {NoUser} :
        ~HasActive(r, c) =>
            \A p \in Range(listPosts(c, r)) : ~p.subscriberOnly

\* C2 witness: a gated post of c reaches its subscriber and is withheld from
\* another user and from the anonymous requester
C2_Witness ==
    \E c \in UserIds, r1, r2 \in UserIds :
        /\ r1 # r2 /\ HasActive(r1, c) /\ ~HasActive(r2, c)
        /\ \E p \in Range(listPosts(c, r1)) : p.subscriberOnly
        /\ \E p \in Range(PostsOf(c)) : p.subscriberOnly
        /\ \A p \in Range(listPosts(c, r2)) : ~p.subscriberOnly
        /\ \A p \in Range(listPosts(c, NoUser)) : ~p.subscriberOnly

\* C3: once subscribe(s, c) has succeeded, listPosts(c, s) is exactly the
\* posts of the collection whose creatorId is c, public and subscriberOnly,
\* in their order, and so holds no post of another creator.
C3_SubscriberSeesAll ==
    \A sc \in subscribed : listPosts(sc[2], sc[1]) = PostsOf(sc[2])

\* C3 witness: ana's public P1 and gated P2; the anonymous requester gets P1,
\* the subscriber gets both
C3_Witness ==
    \E sc \in subscribed :
        /\ Len(listPosts(sc[2], sc[1])) = 2
        /\ Len(listPosts(sc[2], NoUser)) = 1
        /\ \E p \in Range(listPosts(sc[2], sc[1])) : p.subscriberOnly
        /\ \E p \in Range(listPosts(sc[2], sc[1])) : ~p.subscriberOnly

\* the creator a subscribe request names, when the lookup finds one
NamesCreator(creatorUsername) ==
    /\ getUserByUsername(creatorUsername) # NoRecord
    /\ getUserByUsername(creatorUsername).role = "creator"

\* C9 as stated: a subscribe request of a user naming that same user is
\* answered InvalidInput.  The code answers NotFound when that user is not a
\* creator.
C9_SelfIsInvalidInput ==
    \A uid \in Requesters \ {NoUser}, name \in ContentNames :
        getUserByUsername(name) # NoRecord /\ getUserByUsername(name).id = uid
            => SubscribeStatus(uid, name) = InvalidInput

\* C9, amended: a subscribe request of a user naming that same user is
\* answered InvalidInput when the user is a creator and NotFound when not,
\* it adds no record, and no Subscription has subscriberId = creatorId.
C9_State ==
    /\ \A s \in Range(subscriptions) : s.subscriberId # s.creatorId
    /\ \A uid \in Requesters \ {NoUser}, name \in ContentNames :
         getUserByUsername(name) # NoRecord /\ getUserByUsername(name).id = uid
             => SubscribeStatus(uid, name) =
                    IF NamesCreator(name) THEN InvalidInput ELSE NotFound

\* C9: a subscribe request that is not answered Ok adds no record
C9_Step ==
    \A uid \in Requesters, name \in ContentNames :
        Subscribe(uid, name) /\ SubscribeStatus(uid, name) # Ok
            => subscriptions' = subscriptions

C9_NoSelfSubscription == []C9_State /\ [][C9_Step]_vars

\* C9 witness: a creator with a session, whose subscribe request naming
\* themselves is answered InvalidInput, and a user who is not a creator,
\* whose request naming themselves is answered NotFound, while
\* subscriptions of others exist
C9_Witness ==
    /\ subscriptions # <<>>
    /\ \E uid \in Requesters \ {NoUser}, name \in ContentNames :
         /\ NamesCreator(name) /\ getUserByUsername(name).id = uid
         /\ SubscribeStatus(uid, name) = InvalidInput
    /\ \E uid \in Requesters \ {NoUser}, name \in ContentNames :
         /\ ~NamesCreator(name) /\ getUserByUsername(name).id = uid
         /\ SubscribeStatus(uid, name) = NotFound

\* the calls of one kind recorded for a code, in the order they were served
CallsOn(code, op) ==
    LET Test(c) == c.code = code /\ c.op = op IN SelectSeq(calls, Test)

\* the real-number sum of amount * m over a sequence of earn calls
RECURSIVE ExactSum(_, _)
ExactSum(cs, m) ==
    IF cs = <<>> THEN Zero
    ELSE ExactAdd(ExactSum(SubSeq(cs, 1, Len(cs) - 1), m),
                  ExactMul(cs[Len(cs)].amount, m))

\* the earnings a sequence of earn calls leaves when each call adds to what
\* the call before it left
RECURSIVE SerialSum(_, _)
SerialSum(cs, m) ==
    IF cs = <<>> THEN Zero
    ELSE JsAdd(SerialSum(SubSeq(cs, 1, Len(cs) - 1), m),
               JsMul(cs[Len(cs)].amount, m))

\* C4: the earnings of the Referral a code names is the sum of amount x
\* commission over the recordEarning calls served for the code, as a sum of
\* real numbers (so in any order of the calls).  Stated as the claim states
\* it; the code violates it.
C4_EarningsExactSum ==
    \A code \in Codes :
        LET r == getReferralByCode(code)
        IN  r # NoRecord =>
                r.earnings = ExactSum(CallsOn(code, "earn"), r.commission)

\* C5: no update is lost: the earnings of the Referral a code names is what
\* the earn calls served for the code leave when applied one after the other,
\* and its signups is the number of signup calls served for the code.
C5_NoLostUpdate ==
    \A code \in Codes :
        LET r == getReferralByCode(code)
        IN  r # NoRecord =>
                /\ r.earnings = SerialSum(CallsOn(code, "earn"), r.commission)
                /\ r.signups = Len(CallsOn(code, "signup"))

\* C5 witness: two earn calls and two signup calls served for one code, the
\* earnings differing from what either earn call alone leaves
C5_Witness ==
    \E code \in Codes :
        LET r  == getReferralByCode(code)
            cs == CallsOn(code, "earn")
        IN  /\ r # NoRecord
            /\ Len(cs) = 2
            /\ r.signups = 2
            /\ r.earnings # JsMul(cs[1].amount, r.commission)
            /\ r.earnings # JsMul(cs[2].amount, r.commission)

\* C6: no two Referral records have the same code (createCode with a code
\* that exists fails with Conflict).  Stated as the claim states it; the
\* code violates it.
C6_CodeUnique ==
    \A i, j \in 1..Len(referrals) : referrals[i].code = referrals[j].code => i = j

\* C7: for an authenticated buyer, the order request is answered NotFound
\* when no item has the id, InvalidInput when the buyer is the item's
\* creator, and Ok otherwise; every Order refers to an item whose creator is
\* not the buyer.
C7_State ==
    /\ \A o \in Range(orders) :
         /\ findStoreItemById(o.itemId) # NoRecord
         /\ findStoreItemById(o.itemId).creatorId # o.buyerId
    /\ \A uid \in Requesters \ {NoUser}, itemId \in 1..nextId :
         CreateOrderStatus(uid, itemId) =
             IF \A item \in Range(storeItems) : item.id # itemId THEN NotFound
             ELSE IF \E item \in Range(storeItems) :
                        item.id = itemId /\ item.creatorId = uid
             THEN InvalidInput
             ELSE Ok

\* C7: an order request answered Ok appends one Order, pending, of the buyer
\* for the item; any other answer leaves the orders as they were
C7_Step ==
    \A uid \in Requesters, itemId \in 1..nextId :
        CreateOrder(uid, itemId) =>
            IF CreateOrderStatus(uid, itemId) = Ok
            THEN /\ Len(orders') = Len(orders) + 1
                 /\ SubSeq(orders', 1, Len(orders)) = orders
                 /\ orders'[Len(orders')].status = "pending"
                 /\ orders'[Len(orders')].buyerId = uid
                 /\ orders'[Len(orders')].itemId = itemId
            ELSE orders' = orders

C7_NoSelfPurchase == []C7_State /\ [][C7_Step]_vars

\* C7 witness: an order has been placed, and the item's creator asking for
\* the same item is answered InvalidInput
C7_Witness ==
    \E o \in Range(orders), uid \in Requesters \ {NoUser} :
        /\ o.status = "pending"
        /\ CreateOrderStatus(uid, o.itemId) = InvalidInput
        /\ CreateOrderStatus(o.buyerId, o.itemId) = Ok
        /\ CreateOrderStatus(uid, nextId) = NotFound

\* C8 as stated: a tip request of a sender naming a user, with a numeric
\* amount, is answered InvalidInput when the amount is <= 0 or the user is
\* the sender, and Ok otherwise.  The code answers NotFound when the amount
\* is > 0 and the user named is not a creator.
C8_InvalidOrOk ==
    \A uid \in Requesters \ {NoUser}, name \in SocialNames,
       amount \in { a \in TipAmounts : IsNumber(a) } :
        getUserByUsername(name) # NoRecord =>
            SendTipStatus(uid, name, amount) =
                IF NumLeq(amount.num, Zero) \/ getUserByUsername(name).id = uid
                THEN InvalidInput ELSE Ok

\* C8, amended: a tip request with a numeric amount is answered InvalidInput
\* when the amount is <= 0, else NotFound when the user named is not a
\* creator, else InvalidInput when that creator is the sender, else Ok; no
\* Tip has senderId = recipientId or an amount <= 0.
C8_State ==
    /\ \A t \in Range(tips) : t.senderId # t.recipientId /\ NumLess(Zero, t.amount)
    /\ \A uid \in Requesters \ {NoUser}, name \in SocialNames,
          amount \in { a \in TipAmounts : IsNumber(a) } :
         getUserByUsername(name) # NoRecord =>
             SendTipStatus(uid, name, amount) =
                 IF NumLeq(amount.num, Zero) THEN InvalidInput
                 ELSE IF ~NamesCreator(name) THEN NotFound
                 ELSE IF getUserByUsername(name).id = uid THEN InvalidInput
                 ELSE Ok

\* C8: a tip request answered Ok adds the Tip as the last of the tips its
\* recipient has received; any other answer leaves the tips as they were
C8_Step ==
    \A uid \in Requesters, name \in SocialNames, amount \in TipAmounts :
        SendTip(uid, name, amount) =>
            IF SendTipStatus(uid, name, amount) = Ok
            THEN LET recipient == getUserByUsername(name).id
                     before    == listTipsReceived(recipient)
                     after     == listTipsReceived(recipient)'
                 IN  /\ Len(after) = Len(before) + 1
                     /\ SubSeq(after, 1, Len(before)) = before
                     /\ after[Len(after)].senderId = uid
                     /\ after[Len(after)].amount = amount.num
            ELSE tips' = tips

C8_NoSelfTip == []C8_State /\ [][C8_Step]_vars

\* C8 witness: a creator has received a tip, that creator's own tip request
\* naming themselves is answered InvalidInput, and the sender's request
\* naming themselves, not a creator, is answered NotFound
C8_Witness ==
    \E t \in Range(tips), amount \in TipAmounts :
        /\ t \in Range(listTipsReceived(t.recipientId))
        /\ IsNumber(amount) /\ NumLess(Zero, amount.num)
        /\ t.recipientId \in Requesters
        /\ SendTipStatus(t.recipientId, getUserById(t.recipientId).username, amount)
               = InvalidInput
        /\ t.senderId \in Requesters
        /\ getUserByUsername(getUserById(t.senderId).username).id = t.senderId
        /\ SendTipStatus(t.senderId, getUserById(t.senderId).username, amount)
               = NotFound

\* C10: no step lowers the earnings of a Referral.  Stated as the claim
\* states it; the code violates it.
C10_Step ==
    \A i \in 1..Len(referrals) :
        NumLeq(referrals[i].earnings, referrals'[i].earnings)

C10_EarningsMonotone == [][C10_Step]_vars

\* C11: a signup request is answered NotFound exactly when no Referral has
\* the code; the signups of the Referral a code names is the number of
\* signup calls served for the code.
C11_State ==
    \A code \in Codes :
        /\ ReferralSignupStatus(code) =
               IF \E r \in Range(referrals) : r.code = code THEN Ok ELSE NotFound
        /\ getReferralByCode(code) # NoRecord =>
               getReferralByCode(code).signups = Len(CallsOn(code, "signup"))

\* C11: a signup call served for a code adds exactly 1 to the signups of the
\* Referral the code names, and no step lowers the signups of any Referral
C11_Step ==
    /\ \A code \in Codes :
         ReferralSignup(code) /\ ReferralSignupStatus(code) = Ok =>
             getReferralByCode(code)'.signups = getReferralByCode(code).signups + 1
    /\ \A i \in 1..Len(referrals) : referrals'[i].signups >= referrals[i].signups

C11_SignupCounts == []C11_State /\ [][C11_Step]_vars

\* C11 witness: three signup calls served for one code, an unknown code
\* answered NotFound
C11_Witness ==
    /\ getReferralByCode(KnownCode) # NoRecord
    /\ getReferralByCode(KnownCode).signups = 3
    /\ ReferralSignupStatus(UnknownCode) = NotFound

\* C13: a createCode call with a numeric commission stores that commission,
\* and one without a commission stores 0.2.  Stated as the claim states it;
\* the code violates it.
C13_Step ==
    \A uid \in Requesters, code \in {KnownCode}, commission \in Commissions :
        CreateReferral(uid, NoUser, code, commission)
          /\ CreateReferralStatus(uid, code) = Ok =>
            referrals'[Len(referrals')].commission =
                IF IsNumber(commission) THEN commission.num ELSE PointTwo

C13_CommissionAsSupplied == [][C13_Step]_vars

\* C14: every StoreItem has a price >= 0 (createItem fails with InvalidInput
\* unless the price is a number >= 0).  Stated as the claim states it; the
\* code violates it.
C14_PriceNonNegative ==
    \A item \in Range(storeItems) : NumLeq(Zero, item.price)

\* the active Subscription records of a pair among those listSubscriptions
\* returns for the subscriber
ActiveOf(subscriberId, creatorId) ==
    LET Test(r) == r.creatorId = creatorId /\ r.status = "active"
    IN  SelectSeq(listSubscriptions(subscriberId), Test)

\* C15 as stated: a subscribe request of a user naming another user is
\* answered Ok.  The code answers NotFound when the user named is not a
\* creator.
C15_OtherIsOk ==
    \A uid \in Requesters \ {NoUser}, name \in ContentNames :
        getUserByUsername(name) # NoRecord /\ getUserByUsername(name).id # uid
            => SubscribeStatus(uid, name) = Ok

\* C15, amended: a subscribe request of a user naming another user who is a
\* creator is answered Ok, whatever records the pair has
C15_State ==
    \A uid \in Requesters \ {NoUser}, name \in ContentNames :
        NamesCreator(name) /\ getUserByUsername(name).id # uid
            => SubscribeStatus(uid, name) = Ok

\* C15, amended: a subscribe request answered Ok appends exactly one record,
\* active, of the pair, and listSubscriptions of the subscriber returns one
\* more active record of the pair than before
C15_Step ==
    \A uid \in Requesters, name \in ContentNames :
        Subscribe(uid, name) /\ SubscribeStatus(uid, name) = Ok =>
            LET c == getUserByUsername(name).id
            IN  /\ Len(subscriptions') = Len(subscriptions) + 1
                /\ SubSeq(subscriptions', 1, Len(subscriptions)) = subscriptions
                /\ subscriptions'[Len(subscriptions')].status = "active"
                /\ subscriptions'[Len(subscriptions')].subscriberId = uid
                /\ subscriptions'[Len(subscriptions')].creatorId = c
                /\ Len(ActiveOf(uid, c)') = Len(ActiveOf(uid, c)) + 1

C15_DuplicatesAllowed == []C15_State /\ [][C15_Step]_vars

\* C15 witness: a pair with two active records, both returned by
\* listSubscriptions
C15_Witness ==
    \E uid \in UserIds, c \in UserIds :
        /\ uid # c
        /\ Len(ActiveOf(uid, c)) = 2
        /\ uid \in Requesters
        /\ SubscribeStatus(uid, getUserById(c).username) = Ok

\* C16: every Order has status pending
C16_State == \A o \in Range(orders) : o.status = "pending"

\* C16: no step changes or removes an Order
C16_Step == \A i \in 1..Len(orders) : Len(orders') >= i /\ orders'[i] = orders[i]

C16_OrdersStayPending == []C16_State /\ [][C16_Step]_vars

\* C16 witness: two orders, the first placed before the second
C16_Witness ==
    /\ Len(orders) = 2
    /\ orders[1].id < orders[2].id
    /\ orders[1].status = "pending"

\* the ids of a list of records
IdsOf(records) == { r.id : r \in Range(records) }

\* C17: for the admin, a delete request for the id of a Post removes exactly
\* that Post, keeps the others in their order, and a second request for the
\* id is answered NotFound; a request for an id no Post has changes nothing;
\* either way no other ledger changes
C17_Delete ==
    \A uid \in Requesters, postId \in 1..nextId :
        DeletePost(uid, postId) /\ DeletePostStatus(uid, postId) # Forbidden =>
            /\ UNCHANGED <<users, subscriptions, storeItems, orders, referrals,
                           messages, tips>>
            /\ IF postId \in IdsOf(posts)
               THEN /\ DeletePostStatus(uid, postId) = Ok
                    /\ Len(posts') = Len(posts) - 1
                    /\ LET Test(p) == p.id # postId IN posts' = SelectSeq(posts, Test)
                    /\ DeletePostStatus(uid, postId)' = NotFound
               ELSE /\ DeletePostStatus(uid, postId) = NotFound
                    /\ posts' = posts

\* C17: an id that has been drawn and that no Post has is the id of no Post
\* that listPosts or searchPosts returns after the step
C17_Gone ==
    \A id \in 1..nextId :
        id < nextId /\ id \notin IdsOf(posts) =>
            /\ \A c \in UserIds, r \in UserIds \cup {NoUser} :
                 id \notin IdsOf(listPosts(c, r))'
            /\ \A q \in Queries : id \notin IdsOf(searchPosts(q))'

C17_DeleteRemovesOne == [][C17_Delete /\ C17_Gone]_vars

\* C17 witness: an id drawn for a Post that no record has any more, a
\* delete request for it is answered NotFound, and Posts published before
\* and after it are still found by a search
C17_Witness ==
    \E id \in 1..nextId, uid \in Requesters :
        /\ id < nextId
        /\ id \notin IdsOf(users) \cup IdsOf(posts) \cup IdsOf(subscriptions)
        /\ id \notin { h.id : h \in hashing }
        /\ DeletePostStatus(uid, id) = NotFound
        /\ \E p1, p2 \in Range(posts) : p1.id < id /\ id < p2.id
        /\ \E q \in Queries : Len(searchPosts(q)) = 2

\* C20: each profile field of each user holds a value of its declared type:
\* bio, profilePicture and banner a string, socialLinks a mapping,
\* subscriptionPlans a list.  Stated as the claim states it; the code
\* violates it.
C20_FieldTypes ==
    \A u \in Range(users) :
        /\ u.profile.bio.type = "string"
        /\ u.profile.profilePicture.type = "string"
        /\ u.profile.banner.type = "string"
        /\ u.profile.socialLinks.type = "object"
        /\ u.profile.subscriptionPlans.type = "array"

\* the step is one of a request that is answered with a failure status
C12_Failure ==
    \/ \E r \in ModerationUsers :
         RegisterStatus(r[1], "a@b.c", "pw") # Ok
           /\ RegisterStart(r[1], "a@b.c", "pw", r[2])
    \/ \E uid \in Requesters, content \in {<<>>, <<"H", "i">>} :
         CreatePostStatus(uid, content) # Ok
           /\ CreatePost(uid, content, FALSE, <<>>)
    \/ \E uid \in Requesters, creatorUsername \in LedgerNames :
         SubscribeStatus(uid, creatorUsername) # Ok
           /\ Subscribe(uid, creatorUsername)
    \/ \E uid \in Requesters, postId \in 1..nextId :
         DeletePostStatus(uid, postId) # Ok
           /\ DeletePost(uid, postId)
    \/ \E uid \in Requesters, creatorUsername \in LedgerNames,
          price \in {JNum(Num(10)), JString} :
         CreateStoreItemStatus(uid, creatorUsername, "pdf", price) # Ok
           /\ CreateStoreItem(uid, creatorUsername, "pdf", price)
    \/ \E uid \in Requesters, itemId \in 1..nextId :
         CreateOrderStatus(uid, itemId) # Ok
           /\ CreateOrder(uid, itemId)
    \/ \E uid \in Requesters, code \in { KnownCode, "" } :
         CreateReferralStatus(uid, code) # Ok
           /\ CreateReferral(uid, NoUser, code, JUndefined)
    \/ \E code \in Codes :
         ReferralSignupStatus(code) # Ok /\ ReferralSignup(code)
    \/ \E code \in Codes, amount \in {JNum(Num(1)), JString} :
         ReferralEarnStatus(code, amount) # Ok /\ ReferralEarn(code, amount)
    \/ \E uid \in Requesters, recipientUsername \in {"ana", "nobody"},
          content \in {"", "hi"} :
         SendMessageStatus(uid, recipientUsername, content) # Ok
           /\ SendMessage(uid, recipientUsername, content)
    \/ \E uid \in Requesters, creatorUsername \in LedgerNames,
          amount \in {JNum(Num(5)), JNum(Zero)} :
         SendTipStatus(uid, creatorUsername, amount) # Ok
           /\ SendTip(uid, creatorUsername, amount)

\* C12: a request that is answered with a failure status leaves every
\* ledger as it was
C12_Step == UNCHANGED ledgers \/ ~C12_Failure

C12_FailureChangesNothing == [][C12_Step]_vars

\* C12 witness: records in the ledgers, and requests that are answered
\* with each kind of failure
C12_Witness ==
    \E uid \in Requesters \ {NoUser} :
        /\ tips # <<>>
        /\ RegisterStatus("ana", "a@b.c", "pw") = Conflict
        /\ SendTipStatus(uid, getUserById(uid).username, JNum(Num(5))) = InvalidInput
        /\ CreateOrderStatus(uid, nextId) = NotFound
        /\ CreatePostStatus(NoUser, <<"H", "i">>) = Unauthenticated
        /\ DeletePostStatus(uid, nextId) = Forbidden

\* the id that has been drawn and that no record and no registration has
Gone(id) ==
    /\ id < nextId
    /\ \A i \in 1..Len(ledgers) : id \notin IdsOf(ledgers[i])
    /\ id \notin { h.id : h \in hashing }

\* C18: every User, Subscription, StoreItem, Order, Referral, Message and
\* Tip of a state is still there after a step, and a step after which a
\* Post is missing is a delete request answered Ok
C18_Step ==
    /\ IdsOf(users) \subseteq IdsOf(users')
    /\ IdsOf(subscriptions) \subseteq IdsOf(subscriptions')
    /\ IdsOf(storeItems) \subseteq IdsOf(storeItems')
    /\ IdsOf(orders) \subseteq IdsOf(orders')
    /\ IdsOf(referrals) \subseteq IdsOf(referrals')
    /\ IdsOf(messages) \subseteq IdsOf(messages')
    /\ IdsOf(tips) \subseteq IdsOf(tips')
    /\ ~(IdsOf(posts) \subseteq IdsOf(posts')) =>
           \E uid \in Requesters, postId \in IdsOf(posts) :
               DeletePost(uid, postId) /\ DeletePostStatus(uid, postId) = Ok

C18_AppendOnly == [][C18_Step]_vars

\* C18 witness: a Post has been deleted, and records created before and
\* after it are in the other ledgers
C18_Witness ==
    \E id \in 1..nextId :
        /\ Gone(id)
        /\ \E u \in Range(users) : u.id < id
        /\ \E i \in 3..Len(ledgers) : \E r \in Range(ledgers[i]) : r.id > id

\* C19: a step changes at most one ledger, and the ledger a step of a
\* write operation changes is that operation's own
C19_Step ==
    /\ Cardinality({ i \in 1..Len(ledgers) : ledgers[i]' # ledgers[i] }) <= 1
    /\ RegisterRequest \/ (\E h \in hashing : RegisterFinish(h))
         => UNCHANGED <<posts, subscriptions, storeItems, orders, referrals,
                        messages, tips>>
    /\ CreatePostRequest \/ DeletePostRequest
         => posts' # posts
    /\ SubscribeRequest => subscriptions' # subscriptions
    /\ CreateStoreItemRequest => storeItems' # storeItems
    /\ CreateOrderRequest => orders' # orders
    /\ CreateReferralRequest \/ ReferralSignupRequest \/ ReferralEarnRequest
         => referrals' # referrals
    /\ SendMessageRequest => messages' # messages
    /\ SendTipRequest => tips' # tips

C19_OneLedgerPerWrite == [][C19_Step]_vars

\* C19 witness: three different ledgers hold a record, each written by its
\* own operation
C19_Witness ==
    /\ Len(users) = 2
    /\ Cardinality({ i \in 1..Len(ledgers) : ledgers[i] # <<>> }) = 3

\* C21: no step changes the id, code, commission, creatorId or affiliateId
\* of a Referral
C21_Fixed ==
    \A i \in 1..Len(referrals) :
        /\ Len(referrals') >= i
        /\ referrals'[i].id = referrals[i].id
        /\ referrals'[i].code = referrals[i].code
        /\ referrals'[i].commission = referrals[i].commission
        /\ referrals'[i].creatorId = referrals[i].creatorId
        /\ referrals'[i].affiliateId = referrals[i].affiliateId

\* C21: a step that serves a signup call changes nothing but the signups,
\* and one that serves an earn call nothing but the earnings, of the one
\* Referral getReferralByCode returns for the code of the call
C21_Calls ==
    calls' # calls =>
        LET call == calls'[Len(calls')]
            i    == ReferralIndex(call.code)
        IN  /\ referrals[i] = getReferralByCode(call.code)
            /\ IF call.op = "signup"
               THEN /\ referrals'[i].signups # referrals[i].signups
                    /\ referrals' = [referrals EXCEPT
                                       ![i].signups = referrals'[i].signups]
               ELSE referrals' = [referrals EXCEPT
                                    ![i].earnings = referrals'[i].earnings]

C21_ReferralFrame == [][UNCHANGED referrals \/ (C21_Fixed /\ C21_Calls)]_vars

\* C21 witness: two Referrals, signup and earn calls served for the code of
\* the first, the second as it was created
C21_Witness ==
    /\ Len(referrals) = 2
    /\ referrals[1].code = referrals[2].code
    /\ referrals[1].signups > 0 /\ referrals[1].earnings # Zero
    /\ referrals[2].signups = 0 /\ referrals[2].earnings = Zero

\* the id is that of a registered User whose role is creator
IsCreatorId(id) == getUserById(id) # NoRecord /\ getUserById(id).role = "creator"

\* C22: the creatorId of every Subscription and the recipientId of every Tip
\* is the id of a registered User whose role is creator, and the itemId of
\* every Order is the id of a StoreItem.
C22_State ==
    /\ \A sub \in Range(subscriptions) : IsCreatorId(sub.creatorId)
    /\ \A t \in Range(tips) : IsCreatorId(t.recipientId)
    /\ \A o \in Range(orders) : o.itemId \in IdsOf(storeItems)

\* C22: no step changes the id or the role of a User or the id of a
\* StoreItem, or removes one
C22_Step ==
    /\ \A i \in 1..Len(users) :
         /\ Len(users') >= i
         /\ users'[i].id = users[i].id
         /\ users'[i].role = users[i].role
    /\ \A i \in 1..Len(storeItems) :
         Len(storeItems') >= i /\ storeItems'[i].id = storeItems[i].id

C22_ReferencesResolve == []C22_State /\ [][C22_Step]_vars

\* C22 witness: a Subscription and a Tip, both to a creator, by a user who
\* is not a creator
C22_Witness ==
    \E sub \in Range(subscriptions), t \in Range(tips) :
        /\ IsCreatorId(sub.creatorId) /\ ~IsCreatorId(sub.subscriberId)
        /\ IsCreatorId(t.recipientId) /\ t.senderId = sub.subscriberId

\* C23: a Post that listPosts returns for a creator and a requester is
\* returned for them after every step, unless the step is the delete request
\* that removes the Post
C23_Visible ==
    \A c \in UserIds, r \in UserIds \cup {NoUser} :
        \A p \in Range(listPosts(c, r)) :
            \/ p \in Range(listPosts(c, r))'
            \/ \E uid \in Requesters :
                 DeletePostStatus(uid, p.id) = Ok /\ DeletePost(uid, p.id)

\* C23: no step changes or removes a Subscription, and no step changes a
\* Post that it keeps
C23_Kept ==
    /\ \A i \in 1..Len(subscriptions) :
         Len(subscriptions') >= i /\ subscriptions'[i] = subscriptions[i]
    /\ \A p \in Range(posts) : p.id \in IdsOf(posts') => p \in Range(posts')

C23_VisibilityMonotone ==
    [][UNCHANGED <<posts, subscriptions>> \/ (C23_Visible /\ C23_Kept)]_vars

\* C23 witness: a subscriber is returned a gated Post of the creator after
\* another Post has been deleted
C23_Witness ==
    \E c \in UserIds, r \in UserIds, id \in 1..nextId :
        /\ Gone(id)
        /\ HasActive(r, c)
        /\ \E p \in Range(listPosts(c, r)) : p.subscriberOnly /\ p.id < id

====
